---- MODULE Spec2Model ----
(***************************************************************************)
(* A model of ycmd's PythonCompleter (python_completer.py): the memoized   *)
(* settings / environment / project resolution, the Jedi lock, the         *)
(* GoToImplementation walk and the refactoring-to-FixIt conversion.        *)
(***************************************************************************)
EXTENDS Integers, Sequences, FiniteSets, TLC

(***************************************************************************)
(* Bounds of the model.                                                    *)
(***************************************************************************)
\* Requests one behaviour of Spec / SpecSeq starts.
MaxRequests == 2
\* Times the user edits the configuration hook in one behaviour of SpecSeq.
MaxHookChanges == 1

(***************************************************************************)
(* The requests' identities and the world outside the completer.           *)
(***************************************************************************)
Threads == {"t1", "t2"}
NoThread == "none"

\* request_data[ 'filepath' ], request_data[ 'extra_conf_data' ]; "cd0" is the
\* empty extra_conf_data.
FileKeys == {<<"a.py", "cd0">>, <<"a.py", "cd1">>, <<"b.py", "cd0">>}

Files == {"a.py", "b.py"}

\* Interpreter paths a configuration can name. "" is the empty path, "/a/py"
\* and "/a/./py" name the same executable, "/bad" is not on disk.
Hints == {"", "/a/py", "/a/./py", "/bad"}
Executables == {"/a/py", "/a/./py"}
NoPath == "<none>"
SysExecutable == "/sys/py"

\* user_options[ 'python_binary_path' ]
python_binary_path == ""

\* What extra_conf_store.ModuleForSourceFile and the module's Settings
\* function yield for a source file: no module, or a module whose Settings
\* returns a dictionary naming an interpreter path. The dictionary may hold
\* a 'sys_path' list as well, and the module may define PythonSysPath.
NoModule == [kind |-> "nomodule", interpreter_path |-> "",
             has_sys_path |-> FALSE, sys_path |-> << >>, python_sys_path |-> FALSE]
HookDict(h) == [kind |-> "dict", interpreter_path |-> h,
                has_sys_path |-> FALSE, sys_path |-> << >>, python_sys_path |-> FALSE]
HookWithSysPath == [kind |-> "dict", interpreter_path |-> "/a/./py",
                    has_sys_path |-> TRUE, sys_path |-> <<"/proj">>,
                    python_sys_path |-> TRUE]
ConfValues == {NoModule, HookWithSysPath} \cup {HookDict(h) : h \in Hints \ {""}}

\* A module that defines no Settings function, and one whose Settings
\* returns None.
ModuleWithoutSettings == [kind |-> "nosettings", interpreter_path |-> "",
                          has_sys_path |-> FALSE, sys_path |-> << >>,
                          python_sys_path |-> FALSE]
SettingsReturnsNone == [kind |-> "none", interpreter_path |-> "",
                        has_sys_path |-> FALSE, sys_path |-> << >>,
                        python_sys_path |-> FALSE]
AllModules == ConfValues \cup {ModuleWithoutSettings, SettingsReturnsNone}

\* ycmd.utils.FindExecutable( ExpandVariablesInPath( p ) )
FindExecutable(p) == IF p \in Executables THEN p ELSE NoPath

\* os.path.normpath
NormPath(p) == IF p = "/a/./py" THEN "/a/py" ELSE p

VARIABLES
  settings_for_file,                  \* self._settings_for_file
  environment_for_file,               \* self._environment_for_file
  environment_for_interpreter_path,   \* self._environment_for_interpreter_path
  jedi_project_for_file,              \* self._jedi_project_for_file
  jedi_lock,                          \* self._jedi_lock: its holder
  conf,                               \* the configuration hook, per source file
  pc,                                 \* each request thread's position
  frame,                              \* each request thread's locals
  next_id,                            \* identity of the next object jedi builds
  hook_calls,                         \* _GetSettings invocations, per FileKey
  resolve_calls,                      \* _EnvironmentForInterpreterPath invocations
  project_builds,                     \* _GetJediProject invocations
  first_result,                       \* what the first successful resolution returned
  resolutions,                        \* successful resolutions, per FileKey
  requests,                           \* requests started so far
  hook_changes,                       \* edits of the hook so far
  world,                              \* what the engine and the disk answer
  walk,                               \* the locals of _GoToImplementation
  refactoring,                        \* refactoring.get_changed_files()
  fixit,                              \* what _RefactoringToFixIt returned
  offset_call,                        \* the arguments of one _OffsetToPosition call
  offset_result                       \* what that call returned

cacheVars == <<settings_for_file, environment_for_file,
               environment_for_interpreter_path, jedi_project_for_file>>
histVars == <<hook_calls, resolve_calls, project_builds, first_result, resolutions>>
vars == <<settings_for_file, environment_for_file,
          environment_for_interpreter_path, jedi_project_for_file, jedi_lock,
          conf, pc, frame, next_id, hook_calls, resolve_calls, project_builds,
          first_result, resolutions, requests, hook_changes, world, walk,
          refactoring, fixit, offset_call, offset_result>>
diffVars == <<refactoring, fixit, offset_call, offset_result>>

(***************************************************************************)
(* Values.                                                                 *)
(***************************************************************************)
NoSettings == [interpreter_path |-> NoPath, has_sys_path |-> FALSE, sys_path |-> << >>]
NoEnvironment == [id |-> 0, executable |-> NoPath]
NoProject == [id |-> 0, environment_path |-> NoPath, sys_path |-> << >>]
NoResult == [settings |-> NoSettings, environment |-> NoEnvironment,
             project |-> NoProject]

\* Operations that resolve without the lock: OnFileReadyToParse, and
\* DebugInfo, which resolves the same way (lines 728 and 736).
UnlockedOps == {"OnFileReadyToParse"}
\* Operations that take the lock, resolve through _GetJediScript (or, for
\* GoToSymbol, through lines 587-588) and then call the engine:
\* ComputeCandidatesInner, ComputeSignaturesInner, _GoToType, _GoToDefinition,
\* _GoToReferences, _GoToSymbol, _GetType, _GetDoc and the refactorings.
ScriptOps == {"ScriptOp"}
\* Operations that call the engine under the lock without resolving.
EngineOnlyOps == {"DetailCandidates"}
Ops == UnlockedOps \cup ScriptOps \cup EngineOnlyOps

EmptyFrame == [op |-> "none", key |-> <<"a.py", "cd0">>,
               settings |-> NoSettings, interpreter_path |-> NoPath,
               environment |-> NoEnvironment, project |-> NoProject,
               result |-> NoResult, ret |-> "none", conf_at_start |-> NoModule,
               looked_up |-> FALSE, args |-> << >>,
               lock_at_start |-> NoThread]

Put(table, k, v) == [x \in DOMAIN table \cup {k} |-> IF x = k THEN v ELSE table[x]]
EmptyTable == << >>

(***************************************************************************)
(* _GetSettings: the hook's Settings if a module exists, defines Settings  *)
(* and returns a value; otherwise the configured python_binary_path.       *)
(***************************************************************************)
\* A variant that returns what Settings returned, None included.
HookResultUnchecked(module) ==
  IF module.kind = "dict"
  THEN [interpreter_path |-> module.interpreter_path,
        has_sys_path |-> module.has_sys_path, sys_path |-> module.sys_path]
  ELSE IF module.kind = "none"
  THEN [interpreter_path |-> NoPath, has_sys_path |-> FALSE, sys_path |-> << >>]
  ELSE [interpreter_path |-> python_binary_path,
        has_sys_path |-> FALSE, sys_path |-> << >>]

GetSettings(module) ==
  IF /\ module.kind # "nomodule"     \* if module:
     /\ module.kind # "nosettings"   \* if hasattr( module, 'Settings' ):
     /\ module.kind # "none"         \* if settings is not None:
  THEN [interpreter_path |-> module.interpreter_path,
        has_sys_path |-> module.has_sys_path, sys_path |-> module.sys_path]
  ELSE [interpreter_path |-> python_binary_path,
        has_sys_path |-> FALSE, sys_path |-> << >>]

(***************************************************************************)
(* Start of a request.                                                     *)
(***************************************************************************)
FirstPc(o) == IF o \in UnlockedOps THEN "envreq" ELSE "acquire"

Start(t, o, k) ==
  /\ pc[t] = "idle"
  /\ requests < MaxRequests
  /\ requests' = requests + 1
  /\ pc' = [pc EXCEPT ![t] = FirstPc(o)]
  /\ frame' = [frame EXCEPT ![t] = [EmptyFrame EXCEPT !.op = o, !.key = k,
                                                       !.conf_at_start = conf[k[1]]]]
  /\ UNCHANGED <<cacheVars, histVars, jedi_lock, conf, next_id, hook_changes, world, walk, diffVars>>

\* The subcommands that need an argument: _RefactorRename,
\* _RefactorExtractVariable, _RefactorExtractFunction and _GoToSymbol. With
\* one they take the lock, resolve and call the engine like the ScriptOps.
ArgOps == {"RefactorRename", "RefactorExtractVariable", "RefactorExtractFunction",
           "GoToSymbol"}
ArgLists == {<< >>, <<"x">>}

\* A variant of the argument test that lets every list pass.
NeverMissing(args) == FALSE

\* Lines 573, 646, 671 and 696: len( args ) < 1
MissingArgument(args) == Len(args) < 1

\* Lines 572-574, 645-647, 670-672, 695-697: the subcommand raises at once
\* when the argument is missing, and goes on to its with block otherwise.
StartWithArgs(t, o, k, args) ==
  /\ pc[t] = "idle"
  /\ o \in ArgOps
  /\ requests < MaxRequests
  /\ requests' = requests + 1
  /\ IF MissingArgument(args)
     THEN /\ frame' = [frame EXCEPT ![t] = [EmptyFrame EXCEPT
                                              !.op = o, !.key = k, !.args = args,
                                              !.lock_at_start = jedi_lock,
                                              !.conf_at_start = conf[k[1]],
                                              !.ret = "InvalidArgumentError"]]
          /\ UNCHANGED pc
     ELSE /\ frame' = [frame EXCEPT ![t] = [EmptyFrame EXCEPT
                                              !.op = o, !.key = k, !.args = args,
                                              !.lock_at_start = jedi_lock,
                                              !.conf_at_start = conf[k[1]]]]
          /\ pc' = [pc EXCEPT ![t] = "acquire"]
  /\ UNCHANGED <<cacheVars, histVars, jedi_lock, conf, next_id, hook_changes, world, walk, diffVars>>

\* with self._jedi_lock:
AcquireLock(t) ==
  /\ pc[t] = "acquire"
  /\ jedi_lock = NoThread
  /\ jedi_lock' = t
  /\ pc' = [pc EXCEPT ![t] = IF frame[t].op \in EngineOnlyOps THEN "engine" ELSE "envreq"]
  /\ walk' = IF frame[t].op = "GoToImplementation"
             THEN [walk EXCEPT !.acquires = @ + 1]
             ELSE walk
  /\ UNCHANGED <<cacheVars, histVars, conf, frame, next_id, requests, hook_changes, world, diffVars>>

\* _EnvironmentForRequest, lines 131-136: the lookup in _environment_for_file.
EnvironmentForRequest(t) ==
  /\ pc[t] = "envreq"
  /\ LET k == frame[t].key IN
     IF k \in DOMAIN environment_for_file
     THEN /\ frame' = [frame EXCEPT ![t].environment = environment_for_file[k]]
          /\ pc' = [pc EXCEPT ![t] = "projreq"]
     ELSE /\ pc' = [pc EXCEPT ![t] = "setreq"]
          /\ UNCHANGED frame
  /\ UNCHANGED <<cacheVars, histVars, jedi_lock, conf, next_id, requests, hook_changes, world, walk, diffVars>>

\* _SettingsForRequest, lines 79-84: the lookup in _settings_for_file.
SettingsForRequest(t) ==
  /\ pc[t] = "setreq"
  /\ LET k == frame[t].key IN
     IF k \in DOMAIN settings_for_file
     THEN /\ frame' = [frame EXCEPT ![t].settings = settings_for_file[k]]
          /\ pc' = [pc EXCEPT ![t] = "findexe"]
     ELSE /\ pc' = [pc EXCEPT ![t] = "hook"]
          /\ UNCHANGED frame
  /\ UNCHANGED <<cacheVars, histVars, jedi_lock, conf, next_id, requests, hook_changes, world, walk, diffVars>>

\* _SettingsForRequest, lines 86-87: the hook is consulted.
CallGetSettings(t) ==
  /\ pc[t] = "hook"
  /\ frame' = [frame EXCEPT ![t].settings = GetSettings(conf[frame[t].key[1]])]
  /\ hook_calls' = [hook_calls EXCEPT ![frame[t].key] = @ + 1]
  /\ pc' = [pc EXCEPT ![t] = "setstore"]
  /\ UNCHANGED <<cacheVars, resolve_calls, project_builds, first_result, resolutions,
                 jedi_lock, conf, next_id, requests, hook_changes, world, walk, diffVars>>

\* _SettingsForRequest, lines 88-89: the settings are stored.
\* A variant of line 88 that does not keep the settings.
SkipSettingsStore(t) == settings_for_file

\* Line 88: self._settings_for_file[ filepath, client_data ] = settings
StoreSettingsTable(t) == Put(settings_for_file, frame[t].key, frame[t].settings)

StoreSettings(t) ==
  /\ pc[t] = "setstore"
  /\ settings_for_file' = StoreSettingsTable(t)
  /\ pc' = [pc EXCEPT ![t] = "findexe"]
  /\ UNCHANGED <<environment_for_file, environment_for_interpreter_path,
                 jedi_project_for_file, histVars, jedi_lock, conf, frame,
                 next_id, requests, hook_changes, world, walk, diffVars>>

(***************************************************************************)
(* _EnvironmentForInterpreterPath, lines 110-121: the executable is        *)
(* located and normalized, then looked up in the per-path table.           *)
(***************************************************************************)
\* Line 110: only a non-empty path is looked up with FindExecutable.
LooksUpExecutable(interpreter_path) == interpreter_path # ""

\* A variant of lines 110-116 that looks up the empty path as well.
LookUpAnyPath(interpreter_path) ==
  IF FindExecutable(interpreter_path) = NoPath
  THEN NoPath
  ELSE NormPath(FindExecutable(interpreter_path))

\* The key of _environment_for_interpreter_path for a configured path, or
\* NoPath when a non-empty path cannot be located (line 113).
ResolvedInterpreterPath(interpreter_path) ==
  IF interpreter_path # ""
  THEN IF FindExecutable(interpreter_path) = NoPath
       THEN NoPath
       ELSE NormPath(FindExecutable(interpreter_path))
  ELSE interpreter_path

HoldsLock(o) == o \notin UnlockedOps

\* A variant in which an exception leaves the request at once, the lock
\* being left as it is.
LeaveWithoutRelease(o) == "idle"

\* Where an exception leaves the request: the with block releases the lock.
RaisePc(o) == IF HoldsLock(o) THEN "release" ELSE "idle"

EnvironmentForInterpreterPath(t) ==
  /\ pc[t] = "findexe"
  /\ resolve_calls' = [resolve_calls EXCEPT ![frame[t].key] = @ + 1]
  /\ LET p == ResolvedInterpreterPath(frame[t].settings.interpreter_path)
         looked_up == LooksUpExecutable(frame[t].settings.interpreter_path)
     IN
     IF p = NoPath
     THEN /\ frame' = [frame EXCEPT ![t].ret = "EnvironmentResolutionError",
                                    ![t].looked_up = looked_up]
          /\ pc' = [pc EXCEPT ![t] = RaisePc(frame[t].op)]
     ELSE IF p \in DOMAIN environment_for_interpreter_path
          THEN /\ frame' = [frame EXCEPT
                              ![t].interpreter_path = p,
                              ![t].looked_up = looked_up,
                              ![t].environment = environment_for_interpreter_path[p]]
               /\ pc' = [pc EXCEPT ![t] = "envstore"]
          ELSE /\ frame' = [frame EXCEPT ![t].interpreter_path = p,
                                         ![t].looked_up = looked_up]
               /\ pc' = [pc EXCEPT ![t] = "create"]
  /\ UNCHANGED <<cacheVars, hook_calls, project_builds, first_result, resolutions, jedi_lock,
                 conf, next_id, requests, hook_changes, world, walk, diffVars>>

\* jedi.get_default_environment() / jedi.create_environment( path ): a new
\* object each call.
NewEnvironment(id, p) ==
  [id |-> id, executable |-> IF p = "" THEN SysExecutable ELSE p]

\* _EnvironmentForInterpreterPath, lines 124-127: the environment is built by
\* jedi and stored under the normalized path.
CreateEnvironment(t) ==
  /\ pc[t] = "create"
  /\ LET env == NewEnvironment(next_id, frame[t].interpreter_path) IN
     /\ environment_for_interpreter_path' =
          Put(environment_for_interpreter_path, frame[t].interpreter_path, env)
     /\ frame' = [frame EXCEPT ![t].environment = env]
  /\ next_id' = next_id + 1
  /\ pc' = [pc EXCEPT ![t] = "envstore"]
  /\ UNCHANGED <<settings_for_file, environment_for_file, jedi_project_for_file,
                 histVars, jedi_lock, conf, requests, hook_changes, world, walk, diffVars>>

\* A variant of the store of lines 141-142 that forgets the environment.
DropEnvironment(t) == environment_for_file

\* _EnvironmentForRequest, lines 141-142.
StoreEnvironmentTable(t) == Put(environment_for_file, frame[t].key, frame[t].environment)

StoreEnvironment(t) ==
  /\ pc[t] = "envstore"
  /\ environment_for_file' = StoreEnvironmentTable(t)
  /\ pc' = [pc EXCEPT ![t] = "projreq"]
  /\ UNCHANGED <<settings_for_file, environment_for_interpreter_path,
                 jedi_project_for_file, histVars, jedi_lock, conf, frame,
                 next_id, requests, hook_changes, world, walk, diffVars>>

(***************************************************************************)
(* _JediProjectForFile and _GetJediProject.                                *)
(***************************************************************************)
\* What the three accessors return for the request's FileKey once the
\* project is known.
Resolved(t, settings, project) ==
  [settings |-> settings, environment |-> frame[t].environment, project |-> project]

\* After the resolution: the unlocked operations are done, the others go on
\* to the engine.
AfterResolve(o) == IF o \in UnlockedOps THEN "idle" ELSE "engine"

FinishResolve(t, settings, project) ==
  /\ frame' = [frame EXCEPT
                 ![t].project = project,
                 ![t].result = Resolved(t, settings, project),
                 ![t].ret = IF frame[t].op \in UnlockedOps THEN "ok" ELSE @]
  /\ first_result' =
       IF first_result[frame[t].key] = NoResult
       THEN [first_result EXCEPT ![frame[t].key] = Resolved(t, settings, project)]
       ELSE first_result
  /\ resolutions' = [resolutions EXCEPT ![frame[t].key] = @ + 1]
  /\ pc' = [pc EXCEPT ![t] = AfterResolve(frame[t].op)]

\* _JediProjectForFile, lines 172-177: the lookup in _jedi_project_for_file.
JediProjectForFile(t) ==
  /\ pc[t] = "projreq"
  /\ LET k == frame[t].key IN
     IF k \in DOMAIN jedi_project_for_file
     THEN /\ FinishResolve(t, settings_for_file[k], jedi_project_for_file[k])
     ELSE /\ pc' = [pc EXCEPT ![t] = "getproj"]
          /\ UNCHANGED <<frame, first_result, resolutions, diffVars>>
  /\ UNCHANGED <<cacheVars, hook_calls, resolve_calls, project_builds, jedi_lock,
                 conf, next_id, requests, hook_changes, world, walk, diffVars>>

\* environment.get_sys_path(), line 151
GetSysPath(environment) == <<environment.executable>>

\* module.PythonSysPath( **settings ), line 158
PythonSysPath == <<"/override">>

\* A variant of line 150 that leaves the interpreter path of the hook.
KeepHookInterpreterPath(settings, environment) == settings.interpreter_path

\* Line 150: settings[ 'interpreter_path' ] = environment.executable
ProjectInterpreterPath(settings, environment) == environment.executable

\* Lines 146-151: settings.update copies the references of the cached
\* Settings, so that a 'sys_path' list of the hook is the list that line 151
\* extends. This is the cached Settings once line 151 has run.
ExtendedSettings(settings, environment) ==
  IF settings.has_sys_path
  THEN [settings EXCEPT !.sys_path = @ \o GetSysPath(environment)]
  ELSE settings

\* Lines 146-158: the local settings the project is built from.
ProjectSettings(settings, environment, module) ==
  [interpreter_path |-> ProjectInterpreterPath(settings, environment),
   sys_path |-> IF module.kind # "nomodule" /\ module.python_sys_path
                THEN PythonSysPath
                ELSE settings.sys_path \o GetSysPath(environment)]

\* jedi.Project( project_directory, sys_path, environment_path ), lines 166-168.
NewProject(id, project_settings) ==
  [id |-> id, environment_path |-> project_settings.interpreter_path,
   sys_path |-> project_settings.sys_path]

\* _GetJediProject and lines 179-181 of _JediProjectForFile: the settings are
\* read again through _SettingsForRequest, merged with the environment's
\* executable and sys_path, and the project is built and stored.
GetJediProject(t) ==
  /\ pc[t] = "getproj"
  /\ LET k == frame[t].key
         hit == k \in DOMAIN settings_for_file
         cached == IF hit THEN settings_for_file[k] ELSE GetSettings(conf[k[1]])
         settings == ExtendedSettings(cached, frame[t].environment)
         project == NewProject(next_id,
                               ProjectSettings(cached, frame[t].environment, conf[k[1]]))
     IN /\ settings_for_file' = Put(settings_for_file, k, settings)
        /\ hook_calls' = IF hit THEN hook_calls ELSE [hook_calls EXCEPT ![k] = @ + 1]
        /\ jedi_project_for_file' = Put(jedi_project_for_file, k, project)
        /\ project_builds' = [project_builds EXCEPT ![k] = @ + 1]
        /\ FinishResolve(t, settings, project)
  /\ next_id' = next_id + 1
  /\ UNCHANGED <<environment_for_file, environment_for_interpreter_path,
                 resolve_calls, jedi_lock, conf, requests, hook_changes, world, walk, diffVars>>

(***************************************************************************)
(* The engine call of a locked operation and the end of its with block.    *)
(***************************************************************************)
EngineCall(t) ==
  /\ pc[t] = "engine"
  /\ frame[t].op # "GoToImplementation"
  /\ \E r \in {"ok", "NoResultError"} : frame' = [frame EXCEPT ![t].ret = r]
  /\ pc' = [pc EXCEPT ![t] = "release"]
  /\ UNCHANGED <<cacheVars, histVars, jedi_lock, conf, next_id, requests, hook_changes, world, walk, diffVars>>

\* Where a locked operation continues once its with block is left: the walk
\* goes on with the result of its _GoToDefinition call.
AfterRelease(o) == IF o = "GoToImplementation" THEN "w_result" ELSE "idle"

\* A variant in which the walk keeps the lock after its with block.
KeptByWalk(t) == IF frame[t].op = "GoToImplementation" THEN t ELSE NoThread

\* The holder of the lock once the with block of thread t is left.
Released(t) == NoThread

ReleaseLock(t) ==
  /\ pc[t] = "release"
  /\ jedi_lock' = Released(t)
  /\ pc' = [pc EXCEPT ![t] = AfterRelease(frame[t].op)]
  /\ UNCHANGED <<cacheVars, histVars, conf, frame, next_id, requests, hook_changes, world, walk, diffVars>>

\* Between two requests the user edits the extra conf file: the hook yields
\* something else from then on.
ChangeHook(f, c) ==
  /\ hook_changes < MaxHookChanges
  /\ \A t \in Threads : pc[t] = "idle"
  /\ c # conf[f]
  /\ conf' = [conf EXCEPT ![f] = c]
  /\ hook_changes' = hook_changes + 1
  /\ UNCHANGED <<cacheVars, histVars, jedi_lock, pc, frame, next_id, requests, world, walk, diffVars>>


(***************************************************************************)
(* The engine's answers and the files on disk, as one walk sees them.      *)
(*                                                                         *)
(* A walk follows the orbit of the request's position under the single-hop *)
(* oracle, so a world is that orbit: `len' import lines, one after the     *)
(* other, and what comes after the last of them.                           *)
(***************************************************************************)
\* The longest chain of import lines a world holds.
MaxChain == 11

\* max_iterations, line 308
max_iterations == 10

NoneInt == -1
NonePath == "None"

\* A jedi definition none of whose module_path, line and column is set.
Blank == [module_path |-> NonePath, line |-> NoneInt, column |-> NoneInt]

\* Position i of the chain: position 0 is the request's own position.
LocOf(i) ==
  [filepath |-> IF i % 2 = 0 THEN "a.py" ELSE "b.py",
   line_num |-> (i \div 2) + 1,
   column_num |-> 1]

\* A file that cannot be read, and a second candidate the engine may list.
UnreadableLoc == [filepath |-> "c.py", line_num |-> 1, column_num |-> 1]
DecoyLoc == [filepath |-> "d.py", line_num |-> 1, column_num |-> 1]
NoLocation == [filepath |-> NonePath, line_num |-> NoneInt, column_num |-> NoneInt]

EndKinds == {"code", "unreadable", "line0", "linebig", "raise", "blank",
             "blanks", "cycle"}

Worlds ==
  {w \in [len : 0..MaxChain, end : EndKinds, back : 0..MaxChain,
          okind : {"import", "code"}, multi : BOOLEAN] :
     /\ w.back <= w.len
     /\ (w.end # "cycle") => (w.back = 0)
     /\ (w.okind = "import") => (w.end = "cycle" /\ w.back = 0)
     /\ w.multi => (w.end \in {"code", "cycle"})}

\* The location the chain ends in.
TerminalLoc(w) ==
  CASE w.end = "unreadable" -> UnreadableLoc
    [] w.end = "line0" -> [LocOf(w.len + 1) EXCEPT !.line_num = 0]
    [] w.end = "cycle" -> LocOf(w.back)
    [] OTHER -> LocOf(w.len + 1)

\* The definition jedi reports for a location (its column is 0-based).
Definition(l) ==
  [module_path |-> l.filepath, line |-> l.line_num, column |-> l.column_num - 1]

\* script.goto at position i of the chain.
EngineGoto(w, i) ==
  LET first == IF i < w.len THEN LocOf(i + 1) ELSE TerminalLoc(w)
      found == IF w.multi THEN <<Definition(first), Definition(DecoyLoc)>>
               ELSE <<Definition(first)>>
  IN IF i < w.len THEN found
     ELSE CASE w.end = "raise" -> << >>
            [] w.end = "blank" -> <<Blank>>
            [] w.end = "blanks" -> <<Blank, Blank>>
            [] OTHER -> found

\* The position of the chain a request addresses.
IndexOf(pos) ==
  CHOOSE i \in 0..(MaxChain + 1) :
    LocOf(i).filepath = pos.filepath /\ LocOf(i).line_num = pos.line_num

\* The last position of the chain that a file of the world holds a line for.
LastLine(w) == IF w.end = "code" THEN w.len + 1 ELSE w.len

\* Whether a line starts with 'import ' or 'from ' once stripped (line 403).
LineOf(w, i) ==
  IF i = 0 THEN w.okind ELSE IF i <= w.len THEN "import" ELSE "code"

\* file_contents.splitlines() of a file: for each line, whether it is an import.
FileLines(w, f) ==
  IF f = "a.py"
  THEN [j \in 1..((LastLine(w) \div 2) + 1) |-> LineOf(w, 2 * (j - 1))]
  ELSE IF f = "b.py"
       THEN [j \in 1..((LastLine(w) + 1) \div 2) |-> LineOf(w, 2 * j - 1)]
       ELSE << >>

\* ReadFile raises IOError.
Unreadable(f) == f = UnreadableLoc.filepath

\* request_data[ 'file_data' ] holds the request's own file.
InFileData(f) == f = "a.py"

(***************************************************************************)
(* _BuildGoToResponse and _GoToDefinition, lines 492-554.                  *)
(***************************************************************************)
IsBlank(d) ==
  d.column = NoneInt /\ d.line = NoneInt /\ d.module_path = NonePath

GoToResponse(d, request_filepath) ==
  [filepath |-> IF d.module_path # NonePath THEN d.module_path ELSE request_filepath,
   line_num |-> d.line,
   column_num |-> IF d.column # NoneInt THEN 1 + d.column ELSE 1]

RECURSIVE GoTos(_, _)
GoTos(definitions, request_filepath) ==
  IF definitions = << >> THEN << >>
  ELSE (IF IsBlank(Head(definitions)) THEN << >>
        ELSE <<GoToResponse(Head(definitions), request_filepath)>>)
       \o GoTos(Tail(definitions), request_filepath)

BuildGoToResponse(definitions, request_filepath) ==
  IF Len(definitions) = 1
  THEN IF IsBlank(definitions[1])
       THEN [kind |-> "none", items |-> << >>]
       ELSE [kind |-> "dict", items |-> <<GoToResponse(definitions[1], request_filepath)>>]
  ELSE [kind |-> "list", items |-> GoTos(definitions, request_filepath)]

Raised == [kind |-> "raise", items |-> << >>]

\* What _GoToDefinition returns for the engine's definitions, or Raised.
GoToDefinition(definitions, request_filepath) ==
  IF definitions # << >>
  THEN IF BuildGoToResponse(definitions, request_filepath).kind # "none"
       THEN BuildGoToResponse(definitions, request_filepath)
       ELSE Raised
  ELSE Raised

(***************************************************************************)
(* _GoToImplementation, lines 293-456.                                     *)
(***************************************************************************)
NewWalk ==
  [status |-> "new",
   current_request_data |-> [filepath |-> "a.py", line_num |-> 1, column_num |-> 1,
                             extra_conf_data |-> "cd0"],
   previous_locations |-> << >>,
   iterations |-> 0,
   definition_result |-> Raised,
   current_location |-> NoLocation,
   returned |-> NoLocation,
   exit |-> "none",
   queried |-> << >>,
   results |-> << >>,
   acquires |-> 0]

InSeq(x, seq) == \E j \in 1..Len(seq) : seq[j] = x

\* A variant of line 341 that never finds the location.
NeverVisited(location_tuple, previous_locations) == FALSE

\* Line 341: location_tuple in previous_locations
Visited(location_tuple, previous_locations) == InSeq(location_tuple, previous_locations)

\* Lines 302-309: the walk starts at the request's position.
StartWalk(t, cd) ==
  /\ pc[t] = "idle"
  /\ walk.status = "new"
  /\ walk' = [walk EXCEPT
                !.status = "running",
                !.current_request_data =
                   [filepath |-> LocOf(0).filepath, line_num |-> LocOf(0).line_num,
                    column_num |-> LocOf(0).column_num, extra_conf_data |-> cd]]
  /\ frame' = [frame EXCEPT ![t] = [EmptyFrame EXCEPT !.op = "GoToImplementation"]]
  /\ pc' = [pc EXCEPT ![t] = "w_loop"]
  /\ UNCHANGED <<cacheVars, histVars, jedi_lock, conf, next_id, requests,
                 hook_changes, world, diffVars>>

\* return l, and raise RuntimeError; `why' records the exit taken.
Return(w, l, why) == [w EXCEPT !.status = "returned", !.returned = l, !.exit = why]
Raise(w, why) == [w EXCEPT !.status = "raised", !.exit = why]

\* A variant of lines 444-456 that always raises.
RaiseExhausted(w) == Raise(w, "exhausted")

\* Lines 444-456: the iterations are exhausted.
Exhausted(w) ==
  IF w.previous_locations # << >>
  THEN Return(w, w.previous_locations[Len(w.previous_locations)], "exhausted")
  ELSE Raise(w, "exhausted")

\* Lines 311-320: one more iteration calls _GoToDefinition on the current
\* request, or the loop ends.
WalkLoop(t) ==
  /\ pc[t] = "w_loop"
  /\ IF walk.iterations < max_iterations
     THEN /\ walk' = [walk EXCEPT
                        !.iterations = @ + 1,
                        !.queried = Append(@, [filepath |-> walk.current_request_data.filepath,
                                               line_num |-> walk.current_request_data.line_num,
                                               column_num |-> walk.current_request_data.column_num])]
          /\ frame' = [frame EXCEPT ![t] =
                         [EmptyFrame EXCEPT
                            !.op = "GoToImplementation",
                            !.key = <<walk.current_request_data.filepath,
                                      walk.current_request_data.extra_conf_data>>,
                            !.conf_at_start = conf[walk.current_request_data.filepath]]]
          /\ pc' = [pc EXCEPT ![t] = "acquire"]
     ELSE /\ walk' = Exhausted(walk)
          /\ pc' = [pc EXCEPT ![t] = "idle"]
          /\ UNCHANGED frame
  /\ UNCHANGED <<cacheVars, histVars, jedi_lock, conf, next_id, requests,
                 hook_changes, world, diffVars>>

\* Lines 547-554 for a hop of the walk: the engine answers under the lock.
EngineGoTo(t) ==
  /\ pc[t] = "engine"
  /\ frame[t].op = "GoToImplementation"
  /\ LET r == GoToDefinition(EngineGoto(world, IndexOf(walk.current_request_data)),
                             walk.current_request_data.filepath) IN
     /\ walk' = [walk EXCEPT !.definition_result = r]
     /\ frame' = [frame EXCEPT ![t].ret = IF r = Raised THEN "NoResultError" ELSE "ok"]
  /\ pc' = [pc EXCEPT ![t] = "release"]
  /\ UNCHANGED <<cacheVars, histVars, jedi_lock, conf, next_id, requests,
                 hook_changes, world, diffVars>>

\* A variant of lines 429-442 that always raises.
AlwaysRaise(w) == Raise(w, "except")

\* A variant of lines 429-442 that returns the first location visited.
ReturnEarliest(w) ==
  IF w.previous_locations # << >>
  THEN Return(w, w.previous_locations[1], "except")
  ELSE Raise(w, "except")

\* Lines 429-442: an exception inside the loop.
Except(w) ==
  IF w.previous_locations # << >>
  THEN Return(w, w.previous_locations[Len(w.previous_locations)], "except")
  ELSE Raise(w, "except")

\* Lines 335-339.
LocationTuple(l) ==
  [filepath |-> l.filepath, line_num |-> l.line_num, column_num |-> l.column_num]

\* A variant of line 345 that does not record the location.
ForgetVisit(previous_locations, location_tuple) == previous_locations

\* Line 345: previous_locations.append( location_tuple )
Visit(previous_locations, location_tuple) == Append(previous_locations, location_tuple)

\* Lines 320-346: the result of the hop, the visited check.
WalkResult(t) ==
  /\ pc[t] = "w_result"
  /\ LET r == walk.definition_result IN
     IF frame[t].ret # "ok" \/ (r.kind = "list" /\ r.items = << >>)
     THEN /\ walk' = Except(walk)
          /\ pc' = [pc EXCEPT ![t] = "idle"]
     ELSE LET current_location == r.items[1]
              seen == [walk EXCEPT !.current_location = current_location,
                                   !.results = Append(@, LocationTuple(current_location))]
          IN
          IF Visited(LocationTuple(current_location), walk.previous_locations)
          THEN /\ walk' = Return(seen, current_location, "visited")
               /\ pc' = [pc EXCEPT ![t] = "idle"]
          ELSE /\ walk' = [seen EXCEPT
                             !.previous_locations =
                                Visit(@, LocationTuple(current_location))]
               /\ pc' = [pc EXCEPT ![t] = "w_read"]
  /\ UNCHANGED <<cacheVars, histVars, jedi_lock, conf, frame, next_id, requests,
                 hook_changes, world, diffVars>>

\* Lines 349-390: the file of the location is taken from file_data or read
\* from disk.
WalkReadFile(t) ==
  /\ pc[t] = "w_read"
  /\ IF ~InFileData(walk.current_location.filepath)
        /\ Unreadable(walk.current_location.filepath)
     THEN /\ walk' = Return(walk, walk.current_location, "unreadable")
          /\ pc' = [pc EXCEPT ![t] = "idle"]
     ELSE /\ pc' = [pc EXCEPT ![t] = "w_classify"]
          /\ UNCHANGED walk
  /\ UNCHANGED <<cacheVars, histVars, jedi_lock, conf, frame, next_id, requests,
                 hook_changes, world, diffVars>>

\* A variant of lines 421-427 that repeats the request of the hop before.
SameRequest(l) == walk.current_request_data

\* Lines 421-427: the next request addresses the location just found; a
\* RequestWrap built from new_request_data carries no extra_conf_data.
NextRequest(l) ==
  [filepath |-> l.filepath, line_num |-> l.line_num, column_num |-> l.column_num,
   extra_conf_data |-> "cd0"]

\* Lines 392-427: the line is classified.
WalkClassify(t) ==
  /\ pc[t] = "w_classify"
  /\ LET l == walk.current_location
         lines == FileLines(world, l.filepath)
     IN IF l.line_num <= 0 \/ l.line_num > Len(lines)
        THEN /\ walk' = Return(walk, l, "badline")
             /\ pc' = [pc EXCEPT ![t] = "idle"]
        ELSE IF lines[l.line_num] # "import"
             THEN /\ walk' = Return(walk, l, "code")
                  /\ pc' = [pc EXCEPT ![t] = "idle"]
             ELSE /\ walk' = [walk EXCEPT !.current_request_data = NextRequest(l)]
                  /\ pc' = [pc EXCEPT ![t] = "w_loop"]
  /\ UNCHANGED <<cacheVars, histVars, jedi_lock, conf, frame, next_id, requests,
                 hook_changes, world, diffVars>>

(***************************************************************************)
(* _RefactoringToFixIt and _OffsetToPosition, lines 765-837.               *)
(*                                                                         *)
(* A text is a sequence of characters; offset i of a Python string is      *)
(* element i + 1 of the sequence.                                          *)
(***************************************************************************)
\* The longest old or new text of a changed file.
MaxLen == 3

\* An ASCII letter, a character of two UTF-8 bytes, and the line feed.
LF == "LF"
Chars == {"a", "U+00E9", LF}
Utf8Len(c) == IF c = "U+00E9" THEN 2 ELSE 1

Texts == UNION {[1..n -> Chars] : n \in 0..MaxLen}

\* text[ lo : hi ]
Slice(text, lo, hi) == SubSeq(text, lo + 1, hi)

\* len( ToBytes( text ) )
RECURSIVE ByteLen(_)
ByteLen(text) ==
  IF text = << >> THEN 0 ELSE Utf8Len(Head(text)) + ByteLen(Tail(text))

\* A variant that counts characters where bytes are meant.
CodepointColumn(line_value, codepoint_offset) == codepoint_offset

\* ycmd.utils.CodepointOffsetToByteOffset, called at lines 832-833.
CodepointOffsetToByteOffset(line_value, codepoint_offset) ==
  ByteLen(Slice(line_value, 0, codepoint_offset - 1)) + 1

\* Lines 786-787: the offsets of the line feeds of the text, and its length.
RECURSIVE NewlinesFrom(_, _)
NewlinesFrom(text, i) ==
  IF i >= Len(text) THEN <<Len(text)>>
  ELSE (IF text[i + 1] = LF THEN <<i>> ELSE << >>) \o NewlinesFrom(text, i + 1)

Newlines(text) == NewlinesFrom(text, 0)

\* A variant that counts the column from the start of the text.
LocationFromTextStart(offset, filename, text, newlines, index) ==
  [line_number |-> index + 1,
   column_number |-> CodepointOffsetToByteOffset(text, offset + 1),
   filename |-> filename]

\* Lines 828-834: the Location of an offset that lies on the line ending at
\* newlines[ index ].
LocationAt(offset, filename, text, newlines, index) ==
  LET newline == newlines[index + 1]
      start_of_line == IF index > 0 THEN newlines[index] + 1 ELSE 0
      column == offset - start_of_line
      line_value == Slice(text, start_of_line, newline)
  IN [line_number |-> index + 1,
      column_number |-> CodepointOffsetToByteOffset(line_value, column + 1),
      filename |-> filename]

\* Lines 826-834: the inner loop over the offsets not located yet.
RECURSIVE LocateOffsets(_, _, _, _, _)
LocateOffsets(offsets, filename, text, newlines, index) ==
  IF offsets = << >> THEN << >>
  ELSE (IF newlines[index + 1] >= Head(offsets)
        THEN <<LocationAt(Head(offsets), filename, text, newlines, index)>>
        ELSE << >>)
       \o LocateOffsets(Tail(offsets), filename, text, newlines, index)

\* Lines 825-837: the outer loop over the newlines, from `index' on.
RECURSIVE LocateFrom(_, _, _, _, _, _)
LocateFrom(start_end, filename, text, newlines, index, loc) ==
  IF index >= Len(newlines) THEN loc
  ELSE LET located == loc \o LocateOffsets(Slice(start_end, Len(loc), Len(start_end)),
                                           filename, text, newlines, index)
       IN IF Len(located) = 2 THEN located
          ELSE LocateFrom(start_end, filename, text, newlines, index + 1, located)

OffsetToPosition(start_end, filename, text, newlines) ==
  LocateFrom(start_end, filename, text, newlines, 0, << >>)

(***************************************************************************)
(* difflib.SequenceMatcher( a, b, autojunk = False ).get_opcodes(), lines  *)
(* 789-795. Nothing is junk, so a longest match is a longest common block, *)
(* the earliest in a and then the earliest in b.                           *)
(***************************************************************************)
\* The length of the common run of a[ i: ahi ] and b[ j: bhi ].
RECURSIVE RunLength(_, _, _, _, _, _)
RunLength(a, b, i, ahi, j, bhi) ==
  IF i < ahi /\ j < bhi /\ a[i + 1] = b[j + 1]
  THEN 1 + RunLength(a, b, i + 1, ahi, j + 1, bhi)
  ELSE 0

\* find_longest_match( alo, ahi, blo, bhi ): the block <<i, j, k>>.
FindLongestMatch(a, b, alo, ahi, blo, bhi) ==
  LET blocks == {<<i, j, RunLength(a, b, i, ahi, j, bhi)>> :
                   i \in alo..(ahi - 1), j \in blo..(bhi - 1)}
      matches == {x \in blocks : x[3] > 0}
      longest == {x \in matches : \A y \in matches : y[3] <= x[3]}
      first_in_a == {x \in longest : \A y \in longest : x[1] <= y[1]}
  IN IF matches = {} THEN <<alo, blo, 0>>
     ELSE CHOOSE x \in first_in_a : \A y \in first_in_a : x[2] <= y[2]

\* get_matching_blocks: the longest match, then the matches to its left and
\* to its right, sorted.
RECURSIVE MatchingBlocksIn(_, _, _, _, _, _)
MatchingBlocksIn(a, b, alo, ahi, blo, bhi) ==
  LET x == FindLongestMatch(a, b, alo, ahi, blo, bhi)
      i == x[1]
      j == x[2]
      k == x[3]
  IN IF k = 0 THEN << >>
     ELSE (IF alo < i /\ blo < j
           THEN MatchingBlocksIn(a, b, alo, i, blo, j) ELSE << >>)
          \o <<x>>
          \o (IF i + k < ahi /\ j + k < bhi
              THEN MatchingBlocksIn(a, b, i + k, ahi, j + k, bhi) ELSE << >>)

\* get_matching_blocks: adjacent blocks are collapsed; `pending' is the
\* block <<i1, j1, k1>> being grown.
RECURSIVE Collapse(_, _)
Collapse(blocks, pending) ==
  IF blocks = << >>
  THEN IF pending[3] > 0 THEN <<pending>> ELSE << >>
  ELSE LET next == Head(blocks) IN
       IF pending[1] + pending[3] = next[1] /\ pending[2] + pending[3] = next[2]
       THEN Collapse(Tail(blocks), <<pending[1], pending[2], pending[3] + next[3]>>)
       ELSE (IF pending[3] > 0 THEN <<pending>> ELSE << >>)
            \o Collapse(Tail(blocks), next)

\* get_matching_blocks, with the sentinel <<len( a ), len( b ), 0>>.
GetMatchingBlocks(a, b) ==
  Collapse(MatchingBlocksIn(a, b, 0, Len(a), 0, Len(b)), <<0, 0, 0>>)
  \o <<<<Len(a), Len(b), 0>>>>

Opcode(tag, i1, i2, j1, j2) == [tag |-> tag, i1 |-> i1, i2 |-> i2, j1 |-> j1, j2 |-> j2]

\* get_opcodes: what lies between the end <<i, j>> of a block and the next.
RECURSIVE OpcodesFrom(_, _, _)
OpcodesFrom(blocks, i, j) ==
  IF blocks = << >> THEN << >>
  ELSE LET ai == Head(blocks)[1]
           bj == Head(blocks)[2]
           size == Head(blocks)[3]
           tag == IF i < ai /\ j < bj THEN "replace"
                  ELSE IF i < ai THEN "delete"
                  ELSE IF j < bj THEN "insert"
                  ELSE ""
       IN (IF tag # "" THEN <<Opcode(tag, i, ai, j, bj)>> ELSE << >>)
          \o (IF size > 0 THEN <<Opcode("equal", ai, ai + size, bj, bj + size)>> ELSE << >>)
          \o OpcodesFrom(Tail(blocks), ai + size, bj + size)

GetOpcodes(a, b) == OpcodesFrom(GetMatchingBlocks(a, b), 0, 0)

(***************************************************************************)
(* _RefactoringToFixIt, lines 770-815.                                     *)
(***************************************************************************)
\* sorted( changes.keys() ), line 774
FileOrder == <<"a.py", "b.py">>
\* A variant that takes the files in descending order.
DescendingKeys(changes) ==
  SelectSeq(<<"b.py", "a.py">>, LAMBDA f : f \in DOMAIN changes)

SortedKeys(changes) == SelectSeq(FileOrder, LAMBDA f : f \in DOMAIN changes)

\* A variant that takes the replacement from the old text.
ChunkOfOldText(op, filename, old_text, new_text, newlines) ==
  [replacement_text |-> Slice(old_text, op.i1, op.i2),
   range |-> OffsetToPosition(<<op.i1, op.i2>>, filename, old_text, newlines)]

\* Lines 804-810: the chunk of an opcode, its range being the Locations
\* that _OffsetToPosition returns.
FixItChunk(op, filename, old_text, new_text, newlines) ==
  [replacement_text |-> Slice(new_text, op.j1, op.j2),
   range |-> OffsetToPosition(<<op.i1, op.i2>>, filename, old_text, newlines)]

\* Lines 793-810: the chunks of the opcodes that are not `equal'.
RECURSIVE ChunksOfOpcodes(_, _, _, _, _)
ChunksOfOpcodes(opcodes, filename, old_text, new_text, newlines) ==
  IF opcodes = << >> THEN << >>
  ELSE (IF Head(opcodes).tag = "equal" THEN << >>
        ELSE <<FixItChunk(Head(opcodes), filename, old_text, new_text, newlines)>>)
       \o ChunksOfOpcodes(Tail(opcodes), filename, old_text, new_text, newlines)

\* Lines 775-810: the chunks of one changed file.
ChunksOfFile(filename, changed_file) ==
  ChunksOfOpcodes(GetOpcodes(changed_file.old_text, changed_file.new_text),
                  filename, changed_file.old_text, changed_file.new_text,
                  Newlines(changed_file.old_text))

\* Lines 774-810: the chunks of the changed files, in the order of the names.
RECURSIVE ChunksOfFiles(_, _)
ChunksOfFiles(filenames, changes) ==
  IF filenames = << >> THEN << >>
  ELSE ChunksOfFile(Head(filenames), changes[Head(filenames)])
       \o ChunksOfFiles(Tail(filenames), changes)

NoChanges == << >>
NoFixIt == [status |-> "none", chunks |-> << >>]

\* What refactoring.get_changed_files() can hold: nothing, the file a.py
\* with any two texts, or a.py and a second file.
\* `raises' tells whether the engine fails when asked for the file's old
\* or new code (lines 780-781).
ChangedFile(old_text, new_text) ==
  [old_text |-> old_text, new_text |-> new_text, raises |-> FALSE]
FailingFile(old_text, new_text) ==
  [old_text |-> old_text, new_text |-> new_text, raises |-> TRUE]
SecondFileChanges ==
  {ChangedFile(<<"U+00E9", "a">>, <<"U+00E9">>), ChangedFile(<<LF>>, <<LF, "a">>)}
Refactorings ==
  {NoChanges}
  \cup {[f \in {"a.py"} |-> ChangedFile(o, n)] : o \in Texts, n \in Texts}
  \cup {[f \in {"a.py", "b.py"} |-> IF f = "a.py" THEN ChangedFile(o, o) ELSE c] :
          o \in {t \in Texts : Len(t) <= 1}, c \in SecondFileChanges}

\* The files the loop of line 774 converts before the engine fails on one.
RECURSIVE FilesConverted(_, _)
FilesConverted(filenames, changes) ==
  IF filenames = << >> \/ changes[Head(filenames)].raises THEN << >>
  ELSE <<Head(filenames)>> \o FilesConverted(Tail(filenames), changes)

\* A variant that answers with the chunks built before the failure.
ReturnBuiltSoFar(chunks) == [status |-> "built", chunks |-> chunks]

\* An exception inside the loop leaves _RefactoringToFixIt and the
\* subcommand (lines 651-658): the local list `chunks' is dropped.
Propagate(chunks) == [status |-> "raised", chunks |-> << >>]

RefactoringToFixIt ==
  /\ fixit.status = "none"
  /\ LET filenames == SortedKeys(refactoring)
         converted == FilesConverted(filenames, refactoring)
         chunks == ChunksOfFiles(converted, refactoring) IN
     \* responses.Range( *loc ) takes two Locations
     fixit' = IF Len(converted) < Len(filenames)
              THEN Propagate(chunks)
              ELSE IF \E i \in 1..Len(chunks) : Len(chunks[i].range) # 2
              THEN [status |-> "TypeError", chunks |-> << >>]
              ELSE [status |-> "built", chunks |-> chunks]
  /\ UNCHANGED <<cacheVars, histVars, jedi_lock, conf, pc, frame, next_id, requests,
                 hook_changes, world, walk, refactoring, offset_call, offset_result>>

(***************************************************************************)
(* One call of _OffsetToPosition, lines 818-846.                           *)
(***************************************************************************)
NoOffsetCall == [text |-> << >>, start_end |-> <<0, 0>>]
NoPosition == [status |-> "none", loc |-> << >>]

\* The calls: a text, its newlines, and the two offsets of a range (an
\* opcode's i1 <= i2), of which one or both may lie beyond the end of the
\* text.
OffsetCalls ==
  {c \in [text : Texts, start_end : (0..(MaxLen + 1)) \X (0..(MaxLen + 1))] :
     c.start_end[1] <= c.start_end[2]}

\* Lines 824-837: the function returns loc once the loop over the newlines
\* is left, whatever loc holds by then; lines 839-846 follow the return.
CallOffsetToPosition ==
  /\ offset_result.status = "none"
  /\ offset_call \in OffsetCalls
  /\ offset_result' =
       [status |-> "returned",
        loc |-> OffsetToPosition(offset_call.start_end, "a.py", offset_call.text,
                                 Newlines(offset_call.text))]
  /\ UNCHANGED <<cacheVars, histVars, jedi_lock, conf, pc, frame, next_id, requests,
                 hook_changes, world, walk, refactoring, fixit, offset_call>>

(***************************************************************************)
(* Specifications.                                                         *)
(***************************************************************************)
InitCommon ==
  /\ settings_for_file = EmptyTable
  /\ environment_for_file = EmptyTable
  /\ environment_for_interpreter_path = EmptyTable
  /\ jedi_project_for_file = EmptyTable
  /\ jedi_lock = NoThread
  /\ pc = [t \in Threads |-> "idle"]
  /\ frame = [t \in Threads |-> EmptyFrame]
  /\ next_id = 1
  /\ hook_calls = [k \in FileKeys |-> 0]
  /\ resolve_calls = [k \in FileKeys |-> 0]
  /\ project_builds = [k \in FileKeys |-> 0]
  /\ first_result = [k \in FileKeys |-> NoResult]
  /\ resolutions = [k \in FileKeys |-> 0]
  /\ requests = 0
  /\ hook_changes = 0
  /\ fixit = NoFixIt
  /\ offset_result = NoPosition

NoWalk == [len |-> 0, end |-> "raise", back |-> 0, okind |-> "code", multi |-> FALSE]

Init ==
  /\ InitCommon
  /\ refactoring = NoChanges
  /\ offset_call = NoOffsetCall
  /\ conf \in [Files -> ConfValues]
  /\ world = NoWalk
  /\ walk = NewWalk

\* The steps of a resolution and of the with block around it.
ResolveStep(t) ==
  \/ AcquireLock(t)
  \/ EnvironmentForRequest(t)
  \/ SettingsForRequest(t)
  \/ CallGetSettings(t)
  \/ StoreSettings(t)
  \/ EnvironmentForInterpreterPath(t)
  \/ CreateEnvironment(t)
  \/ StoreEnvironment(t)
  \/ JediProjectForFile(t)
  \/ GetJediProject(t)
  \/ ReleaseLock(t)

Step(t) ==
  \/ ResolveStep(t)
  \/ EngineCall(t)

\* Concurrent requests on a pool of threads.
Next ==
  \/ \E t \in Threads, o \in Ops, k \in FileKeys : Start(t, o, k)
  \/ \E t \in Threads : Step(t)

Spec == Init /\ [][Next]_vars

\* One request at a time, and a user who edits the hook between requests.
NextSeq ==
  \/ \E o \in Ops, k \in FileKeys : Start("t1", o, k)
  \/ Step("t1")
  \/ \E f \in Files, c \in ConfValues : ChangeHook(f, c)

SpecSeq == Init /\ [][NextSeq]_vars

\* One request at a time, over every kind of hook module.
InitSettings ==
  /\ InitCommon
  /\ refactoring = NoChanges
  /\ offset_call = NoOffsetCall
  /\ conf \in [Files -> AllModules]
  /\ world = NoWalk
  /\ walk = NewWalk

NextSettings ==
  \/ \E o \in Ops, k \in FileKeys : Start("t1", o, k)
  \/ Step("t1")

SpecSettings == InitSettings /\ [][NextSettings]_vars

\* One GoToImplementation request, and a second thread detailing candidates.
InitWalk ==
  /\ InitCommon
  /\ refactoring = NoChanges
  /\ offset_call = NoOffsetCall
  /\ conf \in {c \in [Files -> ConfValues] :
                 c["a.py"] = HookDict("/a/py")
                 /\ c["b.py"] \in {HookDict("/a/./py"), HookDict("/bad")}}
  /\ world \in Worlds
  /\ walk = NewWalk

WalkStep(t) ==
  \/ WalkLoop(t)
  \/ EngineGoTo(t)
  \/ WalkResult(t)
  \/ WalkReadFile(t)
  \/ WalkClassify(t)

NextWalk ==
  \/ \E cd \in {"cd0", "cd1"} : StartWalk("t1", cd)
  \/ WalkStep("t1")
  \/ Step("t1")
  \/ Start("t2", "DetailCandidates", <<"a.py", "cd0">>)
  \/ Step("t2")

SpecWalk == InitWalk /\ [][NextWalk]_vars

\* The GoToImplementation request alone; its thread is never stopped for good.
NextWalkAlone ==
  \/ \E cd \in {"cd0", "cd1"} : StartWalk("t1", cd)
  \/ WalkStep("t1")
  \/ ResolveStep("t1")

SpecWalkFair == InitWalk /\ [][NextWalkAlone]_vars /\ WF_vars(NextWalkAlone)

\* A GoToImplementation walk over a short chain next to requests of a
\* second thread, every thread that can take a step taking one in the end.
GuardWorlds ==
  {w \in Worlds : w.len <= 2 /\ w.end \in {"code", "unreadable", "raise"} /\ ~w.multi}

InitGuard ==
  /\ InitCommon
  /\ refactoring = NoChanges
  /\ offset_call = NoOffsetCall
  /\ conf \in {c \in [Files -> ConfValues] :
                 c["a.py"] = HookDict("/a/py")
                 /\ c["b.py"] \in {HookDict("/a/./py"), HookDict("/bad")}}
  /\ world \in GuardWorlds
  /\ walk = NewWalk

SpecGuard ==
  /\ InitGuard
  /\ [][NextWalk]_vars
  /\ WF_vars(WalkStep("t1") \/ Step("t1"))
  /\ WF_vars(Step("t2"))

\* A subcommand with or without its argument, next to another request.
InitArgs ==
  /\ InitCommon
  /\ conf \in [Files -> {NoModule, HookDict("/a/py")}]
  /\ world = NoWalk
  /\ walk = NewWalk
  /\ refactoring = NoChanges
  /\ offset_call = NoOffsetCall

NextArgs ==
  \/ \E o \in ArgOps, k \in FileKeys, args \in ArgLists : StartWithArgs("t1", o, k, args)
  \/ \E o \in Ops, k \in FileKeys : Start("t2", o, k)
  \/ \E t \in Threads : Step(t)

SpecArgs == InitArgs /\ [][NextArgs]_vars

\* One refactoring is converted to a FixIt.
InitDiff ==
  /\ InitCommon
  /\ conf = [f \in Files |-> NoModule]
  /\ world = NoWalk
  /\ walk = NewWalk
  /\ refactoring \in Refactorings
  /\ offset_call = NoOffsetCall

NextDiff == RefactoringToFixIt

SpecDiff == InitDiff /\ [][NextDiff]_vars

\* A refactoring of two files is converted; the engine may fail on either.
ShortTexts == {t \in Texts : Len(t) <= 2}
PatchRefactorings ==
  {[f \in {"a.py", "b.py"} |-> IF f = "a.py" THEN a ELSE b] :
     a \in {ChangedFile(o, n) : o \in ShortTexts, n \in ShortTexts}
           \cup {FailingFile(<<"a">>, << >>)},
     b \in SecondFileChanges \cup {FailingFile(<<"a">>, << >>)}}

InitPatch ==
  /\ InitCommon
  /\ conf = [f \in Files |-> NoModule]
  /\ world = NoWalk
  /\ walk = NewWalk
  /\ refactoring \in PatchRefactorings
  /\ offset_call = NoOffsetCall

NextPatch == RefactoringToFixIt

SpecPatch == InitPatch /\ [][NextPatch]_vars

\* The example refactoring of one changed character, and _OffsetToPosition
\* called on its own.
ExampleRefactorings ==
  {[f \in {"a.py"} |-> ChangedFile(<<"a", "=", "1", LF>>, <<"a", "=", "2", LF>>)],
   [f \in {"a.py"} |-> ChangedFile(<<"U+00E9", "=", "1", LF>>, <<"U+00E9", "=", "2", LF>>)]}

InitOffset ==
  /\ InitCommon
  /\ conf = [f \in Files |-> NoModule]
  /\ world = NoWalk
  /\ walk = NewWalk
  /\ refactoring \in ExampleRefactorings
  /\ offset_call \in OffsetCalls

NextOffset ==
  \/ CallOffsetToPosition
  \/ RefactoringToFixIt

SpecOffset == InitOffset /\ [][NextOffset]_vars

(***************************************************************************)
(* Properties.                                                             *)
(***************************************************************************)
Last(seq) == seq[Len(seq)]
Front(seq) == SubSeq(seq, 1, Len(seq) - 1)
NoDuplicates(seq) == \A i, j \in 1..Len(seq) : (seq[i] = seq[j]) => (i = j)

\* The key of the per-path table that the settings cached for a FileKey lead to.
PathOfKey(k) == ResolvedInterpreterPath(settings_for_file[k].interpreter_path)

\* Inside a call into jedi: create_environment / get_default_environment,
\* the calls of _GetJediProject, and the calls on a Script or Project.
InEngine(t) == pc[t] \in {"create", "getproj", "engine"}

\* C1: when one thread resolves a FileKey again after a resolution of it that
\* succeeded, it gets the very Settings, environment object and project object
\* the first resolution returned, and over all these calls _GetSettings,
\* _EnvironmentForInterpreterPath and _GetJediProject ran exactly once for
\* that FileKey (the hook may even have been edited in between).
C1_ResolveIdempotent ==
  \A t \in Threads :
    (frame[t].result # NoResult) =>
      /\ frame[t].result = first_result[frame[t].key]
      /\ hook_calls[frame[t].key] = 1
      /\ resolve_calls[frame[t].key] = 1
      /\ project_builds[frame[t].key] = 1

\* A second resolution of a FileKey has returned.
C1_SecondCallReturned ==
  \E t \in Threads :
    /\ pc[t] = "idle"
    /\ frame[t].result # NoResult
    /\ resolutions[frame[t].key] = 2

\* C2: any two FileKeys with a cached environment whose interpreter paths
\* normalize to the same absolute path hold the same environment object.
C2_SharedRuntime ==
  \A k1, k2 \in DOMAIN environment_for_file :
    (/\ k1 \in DOMAIN settings_for_file
     /\ k2 \in DOMAIN settings_for_file
     /\ PathOfKey(k1) = PathOfKey(k2)
     /\ PathOfKey(k1) \notin {"", NoPath})
    => (environment_for_file[k1] = environment_for_file[k2])

\* The walk is over.
Finished == walk.status \in {"returned", "raised"}

\* Every interpreter path the hook names can be located, so that no
\* _GoToDefinition call of the walk fails in the resolution.
Locatable ==
  \A f \in Files : ResolvedInterpreterPath(GetSettings(conf[f]).interpreter_path) # NoPath

\* The walk returned the non-import location that ends the chain, after one
\* query per import line and one more, each query after the first at the
\* location the one before returned.
ReachedDefinition ==
  /\ walk.status = "returned"
  /\ walk.returned = LocOf(world.len + 1)
  /\ walk.iterations = world.len + 1
  /\ Len(walk.queried) = world.len + 1
  /\ \A i \in 1..Len(walk.queried) : walk.queried[i] = LocOf(i - 1)

\* C3 as claimed: on a chain of N import lines (any N) that ends in a
\* non-import definition, the walk returns that definition after N+1 queries.
C3_AnyChainReachesDefinition ==
  (Finished /\ Locatable /\ world.end = "code") => ReachedDefinition

\* C3 as amended: the same for the chains with N + 1 <= max_iterations.
C3_ChainWithinCapReachesDefinition ==
  (Finished /\ Locatable /\ world.end = "code" /\ world.len + 1 <= max_iterations)
  => ReachedDefinition

\* A walk over nine import lines has ended.
C3_NineImportsWalked ==
  Finished /\ Locatable /\ world.end = "code" /\ world.len = 9

\* The oracle that always returns the import location A = LocOf(0), which
\* points to itself.
SelfLoop ==
  world.len = 0 /\ world.end = "cycle" /\ world.back = 0 /\ world.okind = "import"

\* C4: the walk never goes on after a hop returned a location it had visited:
\* it returns that location at once, with no further query; on the self-loop
\* it returns A after exactly two queries.
C4_RevisitStopsWalk ==
  /\ (walk.status = "running") => NoDuplicates(walk.results)
  /\ (Finished /\ walk.results # << >> /\ InSeq(Last(walk.results), Front(walk.results)))
     => /\ walk.status = "returned"
        /\ walk.exit = "visited"
        /\ LocationTuple(walk.returned) = Last(walk.results)
        /\ Len(walk.queried) = Len(walk.results)
        /\ NoDuplicates(Front(walk.results))
  /\ (Finished /\ SelfLoop)
     => (walk.status = "returned" /\ walk.returned = LocOf(0) /\ walk.iterations = 2)

\* The walk on the self-loop has ended at the revisited location.
C4_SelfLoopWalked == Finished /\ SelfLoop /\ walk.exit = "visited"

\* At most max_iterations queries; once they are used up the walk has
\* returned the result of the last of them.
WithinCap ==
  /\ walk.iterations <= max_iterations
  /\ Len(walk.queried) <= max_iterations
  /\ (walk.exit = "exhausted")
     => /\ walk.status = "returned"
        /\ Len(walk.results) = max_iterations
        /\ LocationTuple(walk.returned) = walk.results[max_iterations]

\* C5: a walk makes at most max_iterations queries and ends; when the
\* queries are used up without a terminal state it returns the location of
\* the last query, and does not fail.
C5_HopCap == []WithinCap /\ <>Finished

\* A walk has used up its iterations.
C5_CapReached == walk.exit = "exhausted"

\* C6: when a hop yields no result the walk returns the last visited
\* location if there is one and fails otherwise; a walk that fails has had
\* no successful hop.
C6_FailurePolicy ==
  /\ (walk.exit = "except")
     => IF walk.previous_locations # << >>
        THEN /\ walk.status = "returned"
             /\ LocationTuple(walk.returned) = Last(walk.previous_locations)
        ELSE walk.status = "raised"
  /\ (walk.status = "raised") => (walk.results = << >>)

\* A hop failed after two or more had succeeded, and the walk returned.
C6_FailedAfterSuccess ==
  walk.exit = "except" /\ walk.status = "returned" /\ Len(walk.previous_locations) >= 2

\* The offsets at which the lines of a text start.
LineStarts(text) == {0} \cup {i \in 1..Len(text) : text[i] = LF}

\* The offsets of a text that a Location (line, byte column) addresses: the
\* one offset on that line with column - 1 bytes of the line before it.
OffsetsOf(text, location) ==
  {o \in 0..Len(text) :
     \E s \in LineStarts(text) :
       /\ Cardinality({x \in LineStarts(text) : x < s}) = location.line_number - 1
       /\ s <= o
       /\ \A i \in (s + 1)..o : text[i] # LF
       /\ ByteLen(Slice(text, s, o)) + 1 = location.column_number}

OffsetOf(text, location) == CHOOSE o \in OffsetsOf(text, location) : TRUE

\* The chunks address the text from offset `from' on, one after the other.
RECURSIVE InOrder(_, _, _)
InOrder(text, chunks, from) ==
  \/ chunks = << >>
  \/ /\ Len(Head(chunks).range) = 2
     /\ Cardinality(OffsetsOf(text, Head(chunks).range[1])) = 1
     /\ Cardinality(OffsetsOf(text, Head(chunks).range[2])) = 1
     /\ from <= OffsetOf(text, Head(chunks).range[1])
     /\ OffsetOf(text, Head(chunks).range[1]) <= OffsetOf(text, Head(chunks).range[2])
     /\ InOrder(text, Tail(chunks), OffsetOf(text, Head(chunks).range[2]))

\* The text from `from' on with every chunk's range replaced by its text.
RECURSIVE ApplyFrom(_, _, _)
ApplyFrom(text, chunks, from) ==
  IF chunks = << >> THEN Slice(text, from, Len(text))
  ELSE Slice(text, from, OffsetOf(text, Head(chunks).range[1]))
       \o Head(chunks).replacement_text
       \o ApplyFrom(text, Tail(chunks), OffsetOf(text, Head(chunks).range[2]))

ChunksFor(filename) ==
  SelectSeq(fixit.chunks, LAMBDA c : c.range[1].filename = filename)

\* C7: the chunks of a FixIt name the changed files only, each range within
\* one file, and for every changed file they address its old text by line
\* and byte column, in order, so that replacing each range by the chunk's
\* text gives the new text.
C7_DiffRoundTrip ==
  (fixit.status # "none") =>
    /\ fixit.status = "built"
    /\ \A i \in 1..Len(fixit.chunks) :
         /\ fixit.chunks[i].range[1].filename \in DOMAIN refactoring
         /\ fixit.chunks[i].range[2].filename = fixit.chunks[i].range[1].filename
    /\ \A f \in DOMAIN refactoring :
         /\ InOrder(refactoring[f].old_text, ChunksFor(f), 0)
         /\ ApplyFrom(refactoring[f].old_text, ChunksFor(f), 0) = refactoring[f].new_text

\* A chunk starts after a two-byte character of its line: its byte column
\* is 3 where its character column is 2.
C7_ChunkAfterMultiByte ==
  /\ fixit.status = "built"
  /\ "a.py" \in DOMAIN refactoring
  /\ Len(refactoring["a.py"].old_text) >= 1
  /\ refactoring["a.py"].old_text[1] = "U+00E9"
  /\ \E i \in 1..Len(fixit.chunks) :
       /\ fixit.chunks[i].range[1].filename = "a.py"
       /\ fixit.chunks[i].range[1].line_number = 1
       /\ fixit.chunks[i].range[1].column_number = 3

\* C8: no two threads are inside a call into the engine at once.
C8_EngineMutualExclusion ==
  \A t, u \in Threads : (t # u) => ~(InEngine(t) /\ InEngine(u))

\* C9: the walking thread holds the lock exactly from the acquisition to
\* the release inside each _GoToDefinition call, never while it examines a
\* result, reads a file or classifies a line, and it has acquired the lock
\* once per hop.
C9_GuardPerHop ==
  \A t \in Threads :
    (frame[t].op = "GoToImplementation") =>
      /\ (pc[t] \in {"idle", "w_loop", "w_result", "w_read", "w_classify"})
         => (jedi_lock # t /\ walk.acquires = walk.iterations)
      /\ (pc[t] = "acquire") => (jedi_lock # t /\ walk.acquires = walk.iterations - 1)
      /\ (pc[t] \notin {"idle", "w_loop", "w_result", "w_read", "w_classify", "acquire"})
         => (jedi_lock = t /\ walk.acquires = walk.iterations)

\* Between two hops of the walk, while it reads a file, the other thread is
\* inside the engine under the lock.
C9_OtherHoldsLockBetweenHops ==
  /\ pc["t1"] = "w_read"
  /\ walk.iterations >= 1
  /\ jedi_lock = "t2"
  /\ pc["t2"] = "engine"

\* C10: a request fails with the resolution error only if the interpreter
\* path configured when it started cannot be located: after a failure, a
\* retry under a corrected configuration succeeds.
C10_RetryAfterFixSucceeds ==
  \A t \in Threads :
    (frame[t].ret = "EnvironmentResolutionError")
    => (ResolvedInterpreterPath(GetSettings(frame[t].conf_at_start).interpreter_path) = NoPath)

\* The call is given an offset greater than the length of the text.
OutOfBounds ==
  \E i \in 1..2 : offset_call.start_end[i] > Len(offset_call.text)

\* C11: a call of _OffsetToPosition with an offset beyond the text fails
\* with 'Invalid file offset in diff' and returns no tuple of positions.
C11_OutOfBoundsRaises ==
  (offset_result.status # "none" /\ OutOfBounds) => (offset_result.status = "raised")

\* A call with the end offset beyond the text has returned one Location.
C11_ShortTupleReturned ==
  /\ OutOfBounds
  /\ offset_result.status = "returned"
  /\ Len(offset_result.loc) = 1

\* C12: whatever the interleaving of the requests, for every FileKey the
\* hook is consulted at most once, the environment is resolved at most once
\* (when its interpreter path can be located) and the project is built at
\* most once, and every request that resolved the FileKey got the objects
\* the first resolution of it returned.
C12_ResolvedOnceUnderConcurrency ==
  /\ \A k \in FileKeys :
       /\ hook_calls[k] <= 1
       /\ project_builds[k] <= 1
       /\ (ResolvedInterpreterPath(GetSettings(conf[k[1]]).interpreter_path) # NoPath)
          => (resolve_calls[k] <= 1)
  /\ \A t \in Threads :
       (frame[t].result # NoResult) => (frame[t].result = first_result[frame[t].key])

\* Two requests have resolved the same FileKey, one of them without the lock.
C12_SameKeyResolvedTwice ==
  /\ \A t \in Threads : pc[t] = "idle" /\ frame[t].result # NoResult
  /\ frame["t1"].key = frame["t2"].key
  /\ frame["t1"].op \in UnlockedOps

\* C13: every FileKey with a cached project has a cached environment, and
\* the project's environment path is that environment's executable.
C13_ProjectRunsOnItsEnvironment ==
  \A k \in DOMAIN jedi_project_for_file :
    /\ k \in DOMAIN environment_for_file
    /\ jedi_project_for_file[k].environment_path = environment_for_file[k].executable

\* A project is cached for a FileKey whose hook names another spelling of
\* the interpreter path than the environment's executable, and overrides the
\* sys_path.
C13_ProjectBuiltFromHookSettings ==
  \E k \in DOMAIN jedi_project_for_file :
    /\ k \in DOMAIN settings_for_file
    /\ settings_for_file[k].interpreter_path # jedi_project_for_file[k].environment_path
    /\ settings_for_file[k].interpreter_path # ""
    /\ jedi_project_for_file[k].sys_path = PythonSysPath

\* The request of thread t has resolved the environment of an empty
\* interpreter path.
ResolvedEmptyHint(t) ==
  /\ frame[t].settings.interpreter_path = ""
  /\ pc[t] \notin {"hook", "setstore", "findexe"}

\* C14: a resolution with the empty interpreter path does not raise and
\* looks no executable up; its environment is the default one, stored under
\* the empty path, and every FileKey resolved with the empty path holds that
\* one object.
C14_EmptyHintGivesDefault ==
  /\ \A t \in Threads :
       ResolvedEmptyHint(t) =>
         /\ frame[t].ret # "EnvironmentResolutionError"
         /\ ~frame[t].looked_up
         /\ frame[t].interpreter_path = ""
         /\ (pc[t] # "create") =>
              /\ "" \in DOMAIN environment_for_interpreter_path
              /\ frame[t].environment = environment_for_interpreter_path[""]
              /\ frame[t].environment.executable = SysExecutable
  /\ \A k \in DOMAIN environment_for_file :
       (environment_for_file[k].executable = SysExecutable)
       => (environment_for_file[k] = environment_for_interpreter_path[""])

\* Two FileKeys have been resolved with the empty path, one after the other.
C14_TwoKeysOnDefault ==
  \E k1, k2 \in DOMAIN environment_for_file :
    /\ k1 # k2
    /\ environment_for_file[k1].executable = SysExecutable
    /\ environment_for_file[k2].executable = SysExecutable
    /\ \E t \in Threads : ResolvedEmptyHint(t) /\ pc[t] = "idle" /\ frame[t].key = k2

\* The request of thread t is a subcommand invoked with no argument.
WithoutArgument(t) == frame[t].op \in ArgOps /\ frame[t].args = << >>

\* A subcommand invoked with no argument has failed at once: it is over, it
\* never held the lock, resolved nothing and called no engine.
FailedAtOnce(t) ==
  /\ pc[t] = "idle"
  /\ frame[t].ret = "InvalidArgumentError"
  /\ jedi_lock # t
  /\ frame[t].result = NoResult
  /\ frame[t].environment = NoEnvironment

\* C15: RefactorRename, RefactorExtractVariable, RefactorExtractFunction and
\* GoToSymbol invoked with an empty argument list fail with the argument
\* error without taking the lock and without an engine call, and the step
\* that invokes them leaves the four cache tables and the lock as they were.
C15_MissingArgumentFailsFirst ==
  /\ [](\A t \in Threads : WithoutArgument(t) => FailedAtOnce(t))
  /\ [][\A t \in Threads :
          (WithoutArgument(t)' /\ frame'[t] # frame[t])
          => (UNCHANGED cacheVars /\ UNCHANGED jedi_lock /\ UNCHANGED next_id)]_vars

\* A subcommand has failed for its missing argument while the other thread
\* holds the lock and tables are filled.
C15_FailedWhileLockHeld ==
  /\ WithoutArgument("t1")
  /\ frame["t1"].ret = "InvalidArgumentError"
  /\ frame["t1"].lock_at_start = "t2"
  /\ jedi_lock = "t2"
  /\ settings_for_file # EmptyTable

\* The number of line feeds of the text at offsets below o.
NewlinesBelow(text, o) == Cardinality({i \in 0..(o - 1) : text[i + 1] = LF})

\* The offset at which the line holding offset o starts.
StartOfLineOf(text, o) ==
  CHOOSE s \in 0..o : /\ s = 0 \/ text[s] = LF
                      /\ \A i \in s..(o - 1) : text[i + 1] # LF

\* The position of offset o by the rule: lines counted by the line feeds
\* before o, columns by the bytes between the start of the line and o.
PositionOf(text, o) ==
  [line_number |-> 1 + NewlinesBelow(text, o),
   column_number |-> 1 + ByteLen(Slice(text, StartOfLineOf(text, o), o)),
   filename |-> "a.py"]

\* The one chunk expected of a file of one line whose third character is
\* replaced by "2", given the column at which that character starts.
OneChunk(column) ==
  <<[replacement_text |-> <<"2">>,
     range |-> <<[line_number |-> 1, column_number |-> column, filename |-> "a.py"],
                 [line_number |-> 1, column_number |-> column + 1, filename |-> "a.py"]>>]>>

\* C16: every offset of a call that lies within the text (0 <= o <=
\* len(text)) is reported on line 1 + the number of line feeds below o, at
\* column 1 + the bytes between the start of that line and o; and old text
\* "a=1\n" with new text "a=2\n" gives exactly one chunk, replacing columns 3
\* to 4 of line 1 with "2" (columns 4 to 5 when the name takes two bytes).
C16_OffsetToLineAndByteColumn ==
  /\ offset_result.status = "returned" =>
       \A i \in 1..2 :
         offset_call.start_end[i] <= Len(offset_call.text) =>
           /\ Len(offset_result.loc) >= i
           /\ offset_result.loc[i] = PositionOf(offset_call.text, offset_call.start_end[i])
  /\ fixit.status # "none" =>
       /\ fixit.status = "built"
       /\ fixit.chunks = OneChunk(2 + Utf8Len(refactoring["a.py"].old_text[1]))

\* The example has been converted, and a call has located an offset on the
\* second line, after a character of two bytes.
C16_SecondLineAfterTwoBytes ==
  /\ fixit.status = "built"
  /\ refactoring["a.py"].old_text = <<"a", "=", "1", LF>>
  /\ fixit.chunks = OneChunk(3)
  /\ offset_result.status = "returned"
  /\ offset_call.text = <<LF, "U+00E9", "a">>
  /\ offset_call.start_end = <<1, 2>>
  /\ offset_result.loc[2].line_number = 2
  /\ offset_result.loc[2].column_number = 3

\* Every entry of the table is still there after the step, with the value
\* and the instance it had.
Kept(table) == \A k \in DOMAIN table : k \in DOMAIN table' /\ table'[k] = table[k]

\* C17: no step of any request removes an entry of one of the four cache
\* tables or puts another value or another instance in its place.
C17_NoInvalidation ==
  [][/\ Kept(settings_for_file)
     /\ Kept(environment_for_file)
     /\ Kept(environment_for_interpreter_path)
     /\ Kept(jedi_project_for_file)]_vars

\* The environment cached for a FileKey is another instance than the one
\* the first request that resolved the FileKey was given.
C17_EnvironmentReplaced ==
  \E k \in DOMAIN environment_for_file :
    /\ first_result[k] # NoResult
    /\ first_result[k].environment.id # environment_for_file[k].id

\* C19: a step that builds the project of a FileKey leaves the settings
\* cached for that FileKey as they were, the search-path list included.
C19_ProjectBuildKeepsSettings ==
  [][\A k \in DOMAIN settings_for_file :
       (project_builds'[k] > project_builds[k])
       => (settings_for_file'[k] = settings_for_file[k])]_vars

\* The project of a FileKey is built and the search-path list of its cached
\* settings is longer than the list the hook returned.
C19_CachedSysPathGrown ==
  \E k \in DOMAIN jedi_project_for_file :
    /\ k \in DOMAIN settings_for_file
    /\ conf[k[1]] = HookWithSysPath
    /\ hook_changes = 0
    /\ settings_for_file[k].sys_path = HookWithSysPath.sys_path \o <<"/a/py">>

\* The single-option mapping of the configured default interpreter path.
DefaultSettings ==
  [interpreter_path |-> python_binary_path, has_sys_path |-> FALSE, sys_path |-> << >>]

\* What the claim expects to be stored for a file with the given module.
SettingsByRule(module) ==
  IF module.kind = "dict"
  THEN [interpreter_path |-> module.interpreter_path,
        has_sys_path |-> module.has_sys_path, sys_path |-> module.sys_path]
  ELSE DefaultSettings

\* C18: the settings a step stores for a FileKey that had none are the
\* result of the hook's Settings when the module exists, defines Settings
\* and returns a value, and the default mapping {interpreter_path:
\* python_binary_path} in every other case.
C18_SettingsFallback ==
  [][\A k \in FileKeys :
       (k \notin DOMAIN settings_for_file /\ k \in DOMAIN settings_for_file')
       => (settings_for_file'[k] = SettingsByRule(conf[k[1]]))]_vars

\* The default is stored for a file whose Settings returns None, and the
\* hook's result for a file whose Settings returns a mapping.
C18_NoneFellBackDictStored ==
  /\ conf["a.py"] = SettingsReturnsNone
  /\ conf["b.py"] = HookDict("/a/py")
  /\ <<"a.py", "cd0">> \in DOMAIN settings_for_file
  /\ <<"b.py", "cd0">> \in DOMAIN settings_for_file
  /\ settings_for_file[<<"a.py", "cd0">>] = DefaultSettings
  /\ settings_for_file[<<"b.py", "cd0">>].interpreter_path = "/a/py"

\* A location that cannot be classified: its file is not at hand and cannot
\* be read, or its line is not a line of the file.
Unclassifiable(l) ==
  \/ ~InFileData(l.filepath) /\ Unreadable(l.filepath)
  \/ l.line_num <= 0
  \/ l.line_num > Len(FileLines(world, l.filepath))

\* C20: a hop that returned a location L which cannot be classified is the
\* last hop of the walk: no query follows it, L is the last location added
\* to the visited ones, and the walk ends by returning L.
C20_DefensiveStop ==
  \A j \in 1..Len(walk.results) :
    Unclassifiable(walk.results[j]) =>
      /\ j = Len(walk.results)
      /\ Len(walk.queried) = j
      /\ walk.previous_locations # << >>
      /\ Last(walk.previous_locations) = walk.results[j]
      /\ IF Finished
         THEN /\ walk.status = "returned"
              /\ walk.exit \in {"unreadable", "badline"}
              /\ LocationTuple(walk.returned) = walk.results[j]
         ELSE pc["t1"] \in {"w_read", "w_classify"}

\* After two imports the third hop returned a line beyond the end of its
\* file, and the walk has returned that location.
C20_StoppedBeyondLastLine ==
  /\ Finished
  /\ world.end = "linebig"
  /\ world.len = 2
  /\ walk.exit = "badline"
  /\ walk.iterations = 3
  /\ walk.returned = LocOf(3)
  /\ Len(walk.previous_locations) = 3

\* The settings, the environment and the project of the FileKey are cached.
Cached(k) ==
  /\ k \in DOMAIN settings_for_file
  /\ k \in DOMAIN environment_for_file
  /\ k \in DOMAIN jedi_project_for_file

\* The request of thread t looks up the objects of its FileKey and has not
\* done so yet, because it stands before the lock that another thread holds.
WaitsToLookUp(t) ==
  /\ pc[t] = "acquire"
  /\ frame[t].op \notin EngineOnlyOps
  /\ jedi_lock \notin {NoThread, t}

\* C21: a request that looks up the settings, environment and project of a
\* FileKey whose three entries are cached never waits for the lock while
\* another request is inside an engine call.
C21_CachedLookupNeverWaits ==
  \A t \in Threads :
    (Cached(frame[t].key) /\ \E u \in Threads \ {t} : pc[u] = "engine")
    => ~WaitsToLookUp(t)

\* A request on a cached FileKey stands before the lock while the other
\* thread, which holds it, is inside its engine call.
C21_LookupBehindEngineCall ==
  /\ pc["t1"] = "acquire"
  /\ frame["t1"].op \in ScriptOps
  /\ Cached(frame["t1"].key)
  /\ jedi_lock = "t2"
  /\ pc["t2"] = "engine"

\* The opcodes of a changed file that are not `equal'.
ChangingOpcodes(changed_file) ==
  SelectSeq(GetOpcodes(changed_file.old_text, changed_file.new_text),
            LAMBDA op : op.tag \in {"insert", "replace", "delete"})

\* The chunk is the one of the opcode: its text is the opcode's slice of the
\* new text and its range spans the opcode's offsets of the old text.
ChunkOfOpcode(chunk, op, filename, changed_file) ==
  /\ chunk.replacement_text = Slice(changed_file.new_text, op.j1, op.j2)
  /\ (op.tag = "delete") => (chunk.replacement_text = << >>)
  /\ chunk.range[1].filename = filename
  /\ chunk.range[2].filename = filename
  /\ OffsetsOf(changed_file.old_text, chunk.range[1]) = {op.i1}
  /\ OffsetsOf(changed_file.old_text, chunk.range[2]) = {op.i2}
  /\ (op.tag = "insert") => (chunk.range[1] = chunk.range[2])

\* C22: the chunks of each changed file are, one for one and in order, those
\* of its insert, replace and delete opcodes, none stands for an equal
\* opcode, and a refactoring whose files all keep their text gives no chunk.
C22_OneChunkPerChangingOpcode ==
  (fixit.status # "none") =>
    /\ fixit.status = "built"
    /\ \A f \in DOMAIN refactoring :
         /\ Len(ChunksFor(f)) = Len(ChangingOpcodes(refactoring[f]))
         /\ \A i \in 1..Len(ChunksFor(f)) :
              ChunkOfOpcode(ChunksFor(f)[i], ChangingOpcodes(refactoring[f])[i],
                            f, refactoring[f])
    /\ (\A f \in DOMAIN refactoring : refactoring[f].old_text = refactoring[f].new_text)
       => (fixit.chunks = << >>)
    /\ \A i \in 1..Len(fixit.chunks) : fixit.chunks[i].range[1].filename \in DOMAIN refactoring

\* A file whose opcodes are a delete, an equal and an insert has been
\* converted to two chunks.
C22_DeleteEqualInsert ==
  /\ fixit.status = "built"
  /\ DOMAIN refactoring = {"a.py"}
  /\ {GetOpcodes(refactoring["a.py"].old_text, refactoring["a.py"].new_text)[i].tag :
        i \in 1..Len(GetOpcodes(refactoring["a.py"].old_text, refactoring["a.py"].new_text))}
     = {"delete", "equal", "insert"}
  /\ Len(fixit.chunks) = 2

\* The engine fails on one of the changed files.
SomeFileRaises == \E f \in DOMAIN refactoring : refactoring[f].raises

\* C23: a conversion either answers with the chunks of every changed file,
\* all of them, or fails and answers with no chunk; when the engine fails on
\* a file, the chunks built for the files before it are not returned.
C23_AllOrNothing ==
  (fixit.status # "none") =>
    IF SomeFileRaises
    THEN fixit.status # "built" /\ fixit.chunks = << >>
    ELSE /\ fixit.status = "built"
         /\ \A f \in DOMAIN refactoring :
              Len(ChunksFor(f)) = Len(ChangingOpcodes(refactoring[f]))
         /\ Len(fixit.chunks) =
              Len(ChunksFor("a.py")) + Len(ChunksFor("b.py"))

\* The conversion has failed on the second file after chunks were built for
\* the first, and it answered with none.
C23_FailedOnSecondFile ==
  /\ fixit.status = "raised"
  /\ fixit.chunks = << >>
  /\ ~refactoring["a.py"].raises
  /\ refactoring["b.py"].raises
  /\ Len(ChangingOpcodes(refactoring["a.py"])) = 2

\* C24: a thread that stands before the lock does not hold it, a thread
\* whose request is over does not hold it either, whether the request gave
\* a result or failed, and every thread that stands before the lock gets it
\* and brings its request to an end.
C24_GuardNeverBlocksForever ==
  /\ [](\A t \in Threads : pc[t] \in {"acquire", "idle"} => jedi_lock # t)
  /\ \A t \in Threads : (pc[t] = "acquire") ~> (jedi_lock = t)
  /\ \A t \in Threads : (pc[t] = "acquire") ~> (pc[t] = "idle")

\* The walk stands before the lock for its second hop while the other
\* thread holds it.
C24_SecondHopWaits ==
  /\ pc["t1"] = "acquire"
  /\ frame["t1"].op = "GoToImplementation"
  /\ walk.iterations = 2
  /\ jedi_lock = "t2"

\* The first candidate the engine lists for the j-th query of the walk, as
\* the location _BuildGoToResponse makes of it.
FirstCandidate(j) ==
  LocationTuple(GoToResponse(EngineGoto(world, IndexOf(walk.queried[j]))[1],
                             walk.queried[j].filepath))

\* The location the walk returned is the one its last successful query
\* gave, which is the first candidate the engine listed for that query.
ReturnedLastSuccess ==
  /\ walk.results # << >>
  /\ LocationTuple(walk.returned) = Last(walk.results)
  /\ Last(walk.results) = FirstCandidate(Len(walk.results))
  /\ Len(walk.queried) - Len(walk.results) \in {0, 1}

\* The position the request was made at.
OriginalPosition == LocationTuple(LocOf(0))

\* C25 as claimed: a walk that returns a location returns the one of its
\* last successful query, the first candidate of that query, and never the
\* position the request was made at.
C25_ProvenanceNeverOrigin ==
  (walk.status = "returned")
  => (ReturnedLastSuccess /\ LocationTuple(walk.returned) # OriginalPosition)

\* C25 as amended: the same, the position the request was made at being
\* returned only when the last successful query gave it.
C25_ProvenanceOfLastSuccess ==
  (walk.status = "returned")
  => /\ ReturnedLastSuccess
     /\ (LocationTuple(walk.returned) = OriginalPosition)
        => (FirstCandidate(Len(walk.results)) = OriginalPosition)

\* A query failed after three had succeeded, and the walk returned the
\* location the third one gave.
C25_ThirdOfThreeReturned ==
  /\ walk.status = "returned"
  /\ walk.exit = "except"
  /\ world.end = "raise"
  /\ Len(walk.results) = 3
  /\ Len(walk.queried) = 4
  /\ walk.returned = LocOf(3)

\* C26: every FileKey of the project table is a FileKey of the per-file
\* environment table, and every FileKey of the per-file environment table
\* is a FileKey of the settings table.
C26_CacheLayering ==
  /\ DOMAIN jedi_project_for_file \subseteq DOMAIN environment_for_file
  /\ DOMAIN environment_for_file \subseteq DOMAIN settings_for_file

\* One FileKey is in all three tables; for another the resolution failed,
\* so it is in the settings table alone.
C26_FailedKeyInSettingsOnly ==
  /\ \A t \in Threads : pc[t] = "idle"
  /\ <<"a.py", "cd0">> \in DOMAIN jedi_project_for_file
  /\ <<"b.py", "cd0">> \in DOMAIN settings_for_file
  /\ <<"b.py", "cd0">> \notin DOMAIN environment_for_file
  /\ \E t \in Threads : frame[t].key = <<"b.py", "cd0">> /\ frame[t].ret = "EnvironmentResolutionError"

\* Position p is at or before position q, by line and then by column.
AtOrBefore(p, q) ==
  \/ p.line_number < q.line_number
  \/ p.line_number = q.line_number /\ p.column_number <= q.column_number

\* "a.py" sorts before "b.py".
NameBefore(f, g) == f = "a.py" /\ g = "b.py"

\* C27: in a FixIt every chunk starts at or before its end, both positions
\* naming one changed file; a chunk is followed by a chunk of the same file
\* that starts at or after its end, or by a chunk of a file whose name sorts
\* later.
C27_ChunkOrdering ==
  (fixit.status = "built") =>
    /\ \A i \in 1..Len(fixit.chunks) :
         /\ Len(fixit.chunks[i].range) = 2
         /\ fixit.chunks[i].range[1].filename \in DOMAIN refactoring
         /\ fixit.chunks[i].range[2].filename = fixit.chunks[i].range[1].filename
         /\ AtOrBefore(fixit.chunks[i].range[1], fixit.chunks[i].range[2])
    /\ \A i \in 1..(Len(fixit.chunks) - 1) :
         IF fixit.chunks[i].range[1].filename = fixit.chunks[i + 1].range[1].filename
         THEN AtOrBefore(fixit.chunks[i].range[2], fixit.chunks[i + 1].range[1])
         ELSE NameBefore(fixit.chunks[i].range[1].filename,
                         fixit.chunks[i + 1].range[1].filename)

\* A FixIt holds two chunks of a.py, the second on a later line than the
\* first, followed by a chunk of b.py.
C27_TwoFilesThreeChunks ==
  /\ fixit.status = "built"
  /\ Len(fixit.chunks) = 3
  /\ Len(ChunksFor("a.py")) = 2
  /\ Len(ChunksFor("b.py")) = 1
  /\ fixit.chunks[1].range[2].line_number < fixit.chunks[2].range[1].line_number

\* C28: a _GoToDefinition call that does not fail returns one location or
\* a list of at least one location, also when none of the several
\* definitions of the engine has a path, a line or a column.
C28_NavigationResultNonEmpty ==
  (walk.definition_result # Raised) =>
    /\ walk.definition_result.kind \in {"dict", "list"}
    /\ walk.definition_result.items # << >>

\* The engine listed two definitions without path, line and column, and
\* the _GoToDefinition call returned an empty list without failing.
C28_EmptyListReturned ==
  /\ world.end = "blanks"
  /\ frame["t1"].op = "GoToImplementation"
  /\ frame["t1"].ret = "ok"
  /\ walk.definition_result.kind = "list"
  /\ walk.definition_result.items = << >>

====
